---- MODULE Spec2Model ----
(***************************************************************************)
(* The session protocol client (WebSocketClient.connect / send_message)    *)
(* and the sandbox facade (DockerSandbox.run_interpreter).                 *)
(*                                                                         *)
(* One action is one stretch of code between two awaits of the coroutine:  *)
(* a coroutine runs without interruption until it awaits.  Time is a       *)
(* global clock `now` in whole seconds; time.sleep and an expired          *)
(* asyncio.wait_for advance it by their full length, an arriving frame by  *)
(* the delay after which it arrives, everything else takes no time.        *)
(***************************************************************************)
EXTENDS Integers, Sequences, FiniteSets, TLC

(* ---------------------------------------------------------------- bounds *)
\* max_retries ranges over 0..MaxRetriesBound, retry_delay over
\* 0..MaxRetryDelay (a duration: never negative).
MaxRetriesBound == 3
MaxRetryDelay == 2
\* The frames a streaming far end sends at most, and a quiet one.
MaxFrames == 4
FewFrames == 1
\* A timeout shorter than the default one.
ShortTimeout == 5
\* The lifecycle operations made on one DockerSandbox.
MaxOps == 4

(* ----------------------------------------------------- program constants *)
DefaultTimeout == 30
HeartbeatInterval == 10
RecvTimeout == 5
\* time.sleep(2) after a launch
SettleSeconds == 2

\* DockerSandbox.__init__: the defaults of the fields that shape the launch.
ImageName == "sandbox-image"
CpuLimit == "2"
MemoryLimit == "1024m"
HostPort == "8000"
NetworkMode == "bridge"
UserId == "None"
GroupId == "None"
ReadOnly == FALSE
SeccompProfile == "None"
\* self.dockerfile_path, as its path components
DockerfilePath == << "app", "Dockerfile" >>

\* The capability lists a caller passes: none, the names of one or two
\* capabilities, or ALL.
CapLists == { << >>, << "ALL" >>, << "NET_ADMIN", "CHOWN" >>, << "CHOWN" >> }
\* A container of the image started before this DockerSandbox was made.
EarlierContainer == "c0"

SessionIds == {1, 2}
Messages == {"hi"}
Timeouts == {ShortTimeout, DefaultTimeout}
\* A frame that arrives does so as the wait begins; silence is counted in
\* expired waits.
FrameDelays == {0}

NoValue == [none |-> TRUE]
NoWait == -1

(* ------------------------------------------------------------ wire format *)
\* json.dumps / json.loads: a payload on the wire is either the text of a
\* JSON value or text that is no JSON at all.
JsonDumps(v) == [json |-> v]
Garbage(raw) == [garbage |-> raw]
IsJson(p) == "json" \in DOMAIN p
JsonLoads(p) == p.json

\* A parsed JSON number (a Python int), as opposed to a dict.
PyInt(n) == [pyint |-> n]
IsDict(v) == "pyint" \notin DOMAIN v

\* dict.get(key): None when the key is absent.
Get(d, key) == IF key \in DOMAIN d THEN d[key] ELSE "None"

\* The end marker sent ahead of the content frame.
RequestFrames_EndBeforeContent(message) ==
    << [auth |-> TRUE],
       [role |-> "user", type |-> "message", start |-> TRUE],
       [role |-> "user", type |-> "message", end |-> TRUE],
       [role |-> "user", type |-> "message", content |-> message] >>

\* messages = [...]: the four frames of a request.
RequestFrames(message) ==
    << [auth |-> TRUE],
       [role |-> "user", type |-> "message", start |-> TRUE],
       [role |-> "user", type |-> "message", content |-> message],
       [role |-> "user", type |-> "message", end |-> TRUE] >>

\* What the far end may put on the wire.
StartFrame == [role |-> "assistant", type |-> "message", start |-> TRUE]
ContentFrame(c) == [role |-> "assistant", type |-> "message", content |-> c]
EndFrame == [role |-> "assistant", type |-> "message", end |-> TRUE]
CompleteFrame == [role |-> "server", type |-> "status", content |-> "complete"]
InboundPayloads ==
    { JsonDumps(StartFrame), JsonDumps(ContentFrame("a")), JsonDumps(ContentFrame("b")),
      JsonDumps(EndFrame), JsonDumps(CompleteFrame), JsonDumps(PyInt(5)), Garbage("x") }

(* ------------------------------------------------------------------ state *)
VARIABLES
    max_retries, retry_delay, timeout,  \* WebSocketClient fields
    now,                                \* the clock, time.time()
    far_end,                            \* how many frames the far end has yet to send
    pc,                                 \* each call's position
    message,                            \* send_message's argument
    attempt,                            \* connect's loop index
    websocket,                          \* "None", "open" or "closed"
    sent,                               \* what the channel has transmitted
    locals_bound,                       \* the receive loop's locals are assigned
    responses, current_response, connection_active, message_complete,
    start_time, last_activity_time, current_time,
    pending,                            \* send_message's outcome, set before finally
    result,                             \* what run_interpreter returned
    attempt_waits,                      \* per attempt made, the sleep that preceded it
    last_wait,                          \* the sleep since the last attempt
    probes,                             \* the clock readings of the iterations that pinged
    delivered,                          \* the payloads recv has returned
    exit_reason,                        \* how the exchange ended
    instance_confirmed,                 \* check_container_exists or start_container
                                        \* has succeeded within this call
    call_time,                          \* the clock when run_interpreter was called
    channel_exc,                        \* what the channel's send, ping or recv raised
    at_call,                            \* the runtime and the log when the call began
    cap_drop, cap_add,                  \* DockerSandbox fields
    container_id,                       \* the tracked id, "None" when unset
    running,                            \* the runtime's running containers of the image
    op_log,                             \* the lifecycle operations made, with what each
                                        \* returned and the docker command it ran
    docker_runs,                        \* every subprocess.run of docker, with whether it
                                        \* exited with status 0
    caller_pc,                          \* where each caller of discover-then-start is
    lock,                               \* the caller holding the provisioning lock, or 0
    serialized                          \* whether the callers take that lock

config == <<max_retries, retry_delay, timeout>>
conn == <<attempt, websocket, attempt_waits, last_wait>>
loopvars == <<locals_bound, responses, current_response, connection_active, message_complete,
              start_time, last_activity_time, current_time>>
outcome == <<pending, result, exit_reason>>
history == <<probes, delivered, instance_confirmed, call_time, channel_exc, at_call>>
profile == <<cap_drop, cap_add>>
provisioning == <<caller_pc, lock, serialized>>
lifecycle == <<profile, container_id, running, op_log, docker_runs, provisioning>>
session == <<far_end, pc, message, sent, conn, loopvars, outcome, history>>
vars == <<config, far_end, now, pc, message, sent, conn, loopvars, outcome, history, lifecycle>>

Returned(value) == [kind |-> "return", value |-> value]
Raised(exc) == [kind |-> "raise", exc |-> exc]

\* self.cap_drop = cap_drop if cap_drop else ["ALL"]
DefaultCapDrop(arg) == IF arg # << >> THEN arg ELSE << "ALL" >>

\* self.cap_add = cap_add if cap_add else []
DefaultCapAdd(arg) == IF arg # << >> THEN arg ELSE << >>

\* DockerSandbox.__init__ with the capability arguments given.
NewSandbox(drop_arg, add_arg) ==
    /\ cap_drop = DefaultCapDrop(drop_arg)
    /\ cap_add = DefaultCapAdd(add_arg)
    /\ container_id = "None"
    /\ op_log = << >>
    /\ docker_runs = << >>

\* The callers that provision through one DockerSandbox.
Callers == {1, 2}

\* Nobody is about to provision.
NoCallers ==
    /\ caller_pc = [c \in Callers |-> "done"]
    /\ lock = 0
    /\ serialized = FALSE

\* No call of run_interpreter made yet.
NoSession ==
    /\ now = 0
    /\ pc = [s \in SessionIds |-> "idle"]
    /\ message = [s \in SessionIds |-> ""]
    /\ attempt = [s \in SessionIds |-> 0]
    /\ websocket = [s \in SessionIds |-> "None"]
    /\ sent = [s \in SessionIds |-> << >>]
    /\ locals_bound = [s \in SessionIds |-> FALSE]
    /\ responses = [s \in SessionIds |-> << >>]
    /\ current_response = [s \in SessionIds |-> ""]
    /\ connection_active = [s \in SessionIds |-> FALSE]
    /\ message_complete = [s \in SessionIds |-> FALSE]
    /\ start_time = [s \in SessionIds |-> 0]
    /\ last_activity_time = [s \in SessionIds |-> 0]
    /\ current_time = [s \in SessionIds |-> 0]
    /\ pending = [s \in SessionIds |-> NoValue]
    /\ result = [s \in SessionIds |-> NoValue]
    /\ attempt_waits = [s \in SessionIds |-> << >>]
    /\ last_wait = [s \in SessionIds |-> NoWait]
    /\ probes = [s \in SessionIds |-> << >>]
    /\ delivered = [s \in SessionIds |-> << >>]
    /\ exit_reason = [s \in SessionIds |-> "none"]
    /\ instance_confirmed = [s \in SessionIds |-> FALSE]
    /\ call_time = [s \in SessionIds |-> 0]
    /\ channel_exc = [s \in SessionIds |-> "none"]
    /\ at_call = [s \in SessionIds |-> [running |-> {}, log |-> 0]]

\* Every retry configuration against a far end that says little, one retry
\* configuration against a far end that streams, and one with a container of
\* the image left running by an earlier process.
Init ==
    /\ \/ /\ max_retries \in 0..MaxRetriesBound
          /\ retry_delay \in 0..MaxRetryDelay
          /\ timeout \in Timeouts
          /\ far_end = [s \in SessionIds |-> FewFrames]
          /\ running = {}
       \/ /\ max_retries = 1
          /\ retry_delay = 0
          /\ timeout = ShortTimeout
          /\ far_end = [s \in SessionIds |-> MaxFrames]
          /\ running = {}
       \/ /\ max_retries = 1
          /\ retry_delay = 0
          /\ timeout = ShortTimeout
          /\ far_end = [s \in SessionIds |-> FewFrames]
          /\ running = {EarlierContainer}
    /\ NoSession
    /\ NoCallers
    /\ NewSandbox(<< >>, << >>)

(* -------------------------------------------------------------- lifecycle *)
\* One entry of op_log: the operation, what it returned, and the docker
\* command it ran (empty when it ran none).
Called(op, ret, docker) == [op |-> op, ret |-> ret, docker |-> docker]

\* One subprocess.run(command): ok is FALSE when docker exits non-zero or
\* cannot be run.
Ran(command, ok) == [command |-> command, ok |-> ok]

\* os.path.dirname
Dirname(path) == SubSeq(path, 1, Len(path) - 1)

\* build_cmd
BuildCommand == << "docker", "build", "-t", ImageName, "-f", DockerfilePath,
                  Dirname(DockerfilePath) >>

\* build_image trying the build a second time when the first one fails.
BuildImage_RetriesOnce(ok) ==
    /\ Len(op_log) < MaxOps
    /\ op_log' = Append(op_log, Called("build_image", ok, BuildCommand))
    /\ docker_runs' = IF ok THEN Append(docker_runs, Ran(BuildCommand, TRUE))
                      ELSE docker_runs \o << Ran(BuildCommand, FALSE), Ran(BuildCommand, FALSE) >>
    /\ UNCHANGED <<config, now, session, profile, container_id, running>>

\* build_image: one docker build, True if it exits with status 0.
BuildImage(ok) ==
    /\ Len(op_log) < MaxOps
    /\ op_log' = Append(op_log, Called("build_image", ok, BuildCommand))
    /\ docker_runs' = Append(docker_runs, Ran(BuildCommand, ok))
    /\ UNCHANGED <<config, now, session, profile, container_id, running>>

RECURSIVE Options(_, _)
\* for cap in caps: command.extend([flag, cap])
Options(flag, caps) ==
    IF caps = << >> THEN << >>
    ELSE << flag, Head(caps) >> \o Options(flag, Tail(caps))

\* The added capabilities put on the command line ahead of the dropped ones.
CapabilityOptions_AddFirst(drop, add) ==
    Options("--cap-add", add) \o Options("--cap-drop", drop)

\* The two loops over self.cap_drop and self.cap_add.
CapabilityOptions(drop, add) ==
    Options("--cap-drop", drop) \o Options("--cap-add", add)

\* command = ["docker", "run", "-d", ...] as start_container builds it; the
\* default volumes are empty and add no option.
LaunchCommand ==
    << "docker", "run", "-d", "-p", HostPort \o ":8000", "--cpus", CpuLimit,
       "--memory", MemoryLimit, "--pids-limit=100" >>
    \o (IF UserId # "None" THEN << "--user", UserId >> ELSE << >>)
    \o (IF GroupId # "None" THEN << "--group-add", GroupId >> ELSE << >>)
    \o << "--network", NetworkMode >>
    \o CapabilityOptions(cap_drop, cap_add)
    \o (IF ReadOnly THEN << "--read-only" >> ELSE << >>)
    \o << "--tmpfs", "/tmp:exec,mode=777", "--tmpfs", "/var/tmp:exec,mode=777",
          "--tmpfs", "/run:exec,mode=777" >>
    \o (IF SeccompProfile # "None"
        THEN << "--security-opt", "seccomp=" \o SeccompProfile >> ELSE << >>)
    \o << ImageName >>

\* The launches among the operations logged.
Launches(log) == { i \in 1..Len(log) : log[i].op = "start_container" }

\* The id docker prints for the next container.
NewContainerId == "c" \o ToString(Cardinality(Launches(op_log)) + 1)

\* The docker ps command of check_container_exists.
PsCommand(id) ==
    IF id \notin {"None", ""}
    THEN << "docker", "ps", "-q", "-f", "id=" \o id, "-f", "status=running" >>
    ELSE << "docker", "ps", "-q", "-f", "ancestor=" \o ImageName, "-f", "status=running" >>

\* The running containers of the image listed whatever id is recorded.
PsMatches_EitherKind(id) == running

\* A filter that matches no container.
PsMatches_Nothing(id) == {}

\* What that command lists.
PsMatches(id) == IF id \notin {"None", ""} THEN running \cap {id} ELSE running

\* check_container_exists unsetting the recorded id when it finds nothing.
CheckContainerExists_ForgetsOnMiss(ok) ==
    /\ Len(op_log) < MaxOps
    /\ docker_runs' = Append(docker_runs, Ran(PsCommand(container_id), ok))
    /\ IF ok /\ PsMatches(container_id) # {}
       THEN \E cid \in PsMatches(container_id) :
                /\ container_id' = cid
                /\ op_log' = Append(op_log,
                                    Called("check_container_exists", TRUE,
                                           PsCommand(container_id)))
       ELSE /\ op_log' = Append(op_log, Called("check_container_exists", FALSE,
                                               PsCommand(container_id)))
            /\ container_id' = "None"
    /\ UNCHANGED <<config, now, session, profile, running>>

\* check_container_exists; ok is FALSE when docker ps fails or cannot be run.
CheckContainerExists(ok) ==
    /\ Len(op_log) < MaxOps
    /\ docker_runs' = Append(docker_runs, Ran(PsCommand(container_id), ok))
    /\ IF ok /\ PsMatches(container_id) # {}
       THEN \E cid \in PsMatches(container_id) :
                /\ container_id' = cid
                /\ op_log' = Append(op_log,
                                    Called("check_container_exists", TRUE,
                                           PsCommand(container_id)))
       ELSE /\ op_log' = Append(op_log, Called("check_container_exists", FALSE,
                                               PsCommand(container_id)))
            /\ UNCHANGED container_id
    /\ UNCHANGED <<config, now, session, profile, running>>

\* start_container recording the new id only when none is recorded yet.
StartContainer_KeepsFirst(ok) ==
    /\ Len(op_log) < MaxOps
    /\ op_log' = Append(op_log, Called("start_container", ok, LaunchCommand))
    /\ docker_runs' = Append(docker_runs, Ran(LaunchCommand, ok))
    /\ IF ok
       THEN /\ container_id' = IF container_id \in {"None", ""} THEN NewContainerId
                                ELSE container_id
            /\ running' = running \cup {NewContainerId}
            /\ now' = now + SettleSeconds
       ELSE UNCHANGED <<container_id, running, now>>
    /\ UNCHANGED <<config, session, profile>>

\* start_container forgetting the tracked id when docker run fails.
StartContainer_ForgetsOnFailure(ok) ==
    /\ Len(op_log) < MaxOps
    /\ op_log' = Append(op_log, Called("start_container", ok, LaunchCommand))
    /\ docker_runs' = Append(docker_runs, Ran(LaunchCommand, ok))
    /\ IF ok
       THEN /\ container_id' = NewContainerId
            /\ running' = running \cup {NewContainerId}
            /\ now' = now + SettleSeconds
       ELSE /\ container_id' = "None"
            /\ UNCHANGED <<running, now>>
    /\ UNCHANGED <<config, session, profile>>

\* start_container; ok is FALSE when docker run exits non-zero or cannot be run.
StartContainer(ok) ==
    /\ Len(op_log) < MaxOps
    /\ op_log' = Append(op_log, Called("start_container", ok, LaunchCommand))
    /\ docker_runs' = Append(docker_runs, Ran(LaunchCommand, ok))
    /\ IF ok
       THEN /\ container_id' = NewContainerId
            /\ running' = running \cup {NewContainerId}
            /\ now' = now + SettleSeconds
       ELSE UNCHANGED <<container_id, running, now>>
    /\ UNCHANGED <<config, session, profile>>

\* The early-return test left out.
NotTracked_Never(id) == FALSE

\* if not self.container_id
NotTracked(id) == id \in {"None", ""}

\* stop_container forgetting the tracked id whether docker stop worked or not.
StopContainer_ClearsOnFailure(ok) ==
    /\ Len(op_log) < MaxOps
    /\ IF NotTracked(container_id)
       THEN /\ op_log' = Append(op_log, Called("stop_container", TRUE, << >>))
            /\ UNCHANGED <<container_id, running, docker_runs>>
       ELSE /\ op_log' = Append(op_log, Called("stop_container", ok,
                                               << "docker", "stop", container_id >>))
            /\ docker_runs' = Append(docker_runs,
                                     Ran(<< "docker", "stop", container_id >>, ok))
            /\ container_id' = "None"
            /\ running' = IF ok THEN running \ {container_id} ELSE running
    /\ UNCHANGED <<config, now, session, profile>>

\* stop_container; ok is FALSE when docker stop exits non-zero or cannot be run.
StopContainer(ok) ==
    /\ Len(op_log) < MaxOps
    /\ IF NotTracked(container_id)
       THEN /\ op_log' = Append(op_log, Called("stop_container", TRUE, << >>))
            /\ UNCHANGED <<container_id, running, docker_runs>>
       ELSE /\ op_log' = Append(op_log, Called("stop_container", ok,
                                               << "docker", "stop", container_id >>))
            /\ docker_runs' = Append(docker_runs,
                                     Ran(<< "docker", "stop", container_id >>, ok))
            /\ IF ok
               THEN /\ container_id' = "None"
                    /\ running' = running \ {container_id}
               ELSE UNCHANGED <<container_id, running>>
    /\ UNCHANGED <<config, now, session, profile>>

\* A container stops by itself: docker ps -f status=running lists it no more.
ContainerExits(c) ==
    /\ c \in running
    /\ running' = running \ {c}
    /\ UNCHANGED <<config, now, session, profile, container_id, op_log, docker_runs>>

(* ------------------------------------------------------- run_interpreter *)
\* run_interpreter launching a container before it connects, whatever is
\* running.
RunInterpreter_StartsAnyway(s, m) ==
    /\ pc[s] = "idle"
    /\ pc' = [pc EXCEPT ![s] = "connect"]
    /\ message' = [message EXCEPT ![s] = m]
    /\ attempt' = [attempt EXCEPT ![s] = 0]
    /\ instance_confirmed' = [instance_confirmed EXCEPT ![s] = TRUE]
    /\ call_time' = [call_time EXCEPT ![s] = now]
    /\ channel_exc' = [channel_exc EXCEPT ![s] = "none"]
    /\ at_call' = [at_call EXCEPT ![s] = [running |-> running, log |-> Len(op_log)]]
    /\ op_log' = Append(op_log, Called("start_container", TRUE, LaunchCommand))
    /\ container_id' = NewContainerId
    /\ running' = running \cup {NewContainerId}
    /\ UNCHANGED <<config, profile, docker_runs, provisioning, far_end, now, sent, websocket,
                   attempt_waits, last_wait, loopvars, outcome, probes, delivered>>

\* DockerSandbox.run_interpreter: straight into send_message, which starts
\* with connect(); no lifecycle call is made on the way.
RunInterpreter(s, m) ==
    /\ pc[s] = "idle"
    /\ pc' = [pc EXCEPT ![s] = "connect"]
    /\ message' = [message EXCEPT ![s] = m]
    /\ attempt' = [attempt EXCEPT ![s] = 0]
    /\ instance_confirmed' = [instance_confirmed EXCEPT ![s] = FALSE]
    /\ call_time' = [call_time EXCEPT ![s] = now]
    /\ channel_exc' = [channel_exc EXCEPT ![s] = "none"]
    /\ at_call' = [at_call EXCEPT ![s] = [running |-> running, log |-> Len(op_log)]]
    /\ UNCHANGED <<config, lifecycle, far_end, now, sent, websocket, attempt_waits,
                   last_wait, loopvars, outcome, probes, delivered>>

(* ----------------------------------------------------------------- connect *)
\* The loop runs once too often: range(retries + 1).
InRange_OneMore(a, retries) == a <= retries

\* for attempt in range(retries)
InRange(a, retries) == a < retries

\* if attempt < retries - 1
ShouldRetry(a, retries) == a < retries - 1

\* The backoff multiplied by the 0-based loop index.
WaitTime_ZeroBased(delay, a) == delay * a

\* wait_time = self.retry_delay * (attempt + 1)
WaitTime(delay, a) == delay * (a + 1)

ConnectionFailed == [success |-> FALSE, error |-> "cannot connect"]

\* websockets.connect succeeds: connect returns the connection, send_message
\* builds the four request frames.
ConnectOk(s) ==
    /\ pc[s] = "connect"
    /\ InRange(attempt[s], max_retries)
    /\ attempt_waits' = [attempt_waits EXCEPT ![s] = Append(@, last_wait[s])]
    /\ last_wait' = [last_wait EXCEPT ![s] = NoWait]
    /\ websocket' = [websocket EXCEPT ![s] = "open"]
    /\ pc' = [pc EXCEPT ![s] = "send"]
    /\ UNCHANGED <<config, lifecycle, far_end, now, message, attempt, sent, loopvars, outcome, history>>

\* websockets.connect raises, and another attempt follows the blocking sleep.
ConnectRetry(s) ==
    /\ pc[s] = "connect"
    /\ InRange(attempt[s], max_retries)
    /\ ShouldRetry(attempt[s], max_retries)
    /\ attempt_waits' = [attempt_waits EXCEPT ![s] = Append(@, last_wait[s])]
    /\ last_wait' = [last_wait EXCEPT ![s] = WaitTime(retry_delay, attempt[s])]
    /\ now' = now + WaitTime(retry_delay, attempt[s])
    /\ attempt' = [attempt EXCEPT ![s] = @ + 1]
    /\ UNCHANGED <<config, lifecycle, far_end, pc, message, websocket, sent, loopvars, outcome, history>>

\* websockets.connect raises on the last attempt: connect returns None and
\* send_message returns its connection-failure record.
ConnectGiveUp(s) ==
    /\ pc[s] = "connect"
    /\ InRange(attempt[s], max_retries)
    /\ ~ShouldRetry(attempt[s], max_retries)
    /\ attempt_waits' = [attempt_waits EXCEPT ![s] = Append(@, last_wait[s])]
    /\ last_wait' = [last_wait EXCEPT ![s] = NoWait]
    /\ pending' = [pending EXCEPT ![s] = Returned(ConnectionFailed)]
    /\ exit_reason' = [exit_reason EXCEPT ![s] = "connect_failed"]
    /\ pc' = [pc EXCEPT ![s] = "finally"]
    /\ UNCHANGED <<config, lifecycle, far_end, now, message, attempt, websocket, sent, loopvars, result,
                   history>>

\* The for loop runs out (only with retries = 0): connect falls off its end
\* and returns None.
ConnectExhausted(s) ==
    /\ pc[s] = "connect"
    /\ ~InRange(attempt[s], max_retries)
    /\ pending' = [pending EXCEPT ![s] = Returned(ConnectionFailed)]
    /\ exit_reason' = [exit_reason EXCEPT ![s] = "connect_failed"]
    /\ pc' = [pc EXCEPT ![s] = "finally"]
    /\ UNCHANGED <<config, lifecycle, far_end, now, message, conn, sent, loopvars, result, history>>

(* -------------------------------------------------- send_message: sending *)
ClosedWhileSending == [success |-> FALSE, error |-> "closed while sending"]
ConnectionClosedResult == [success |-> FALSE, error |-> "closed"]

\* The outermost handler logs and re-raises.
OuterExceptHandler_Reraise(exc) == [kind |-> "raise", exc |-> exc]

\* except Exception as e (the outermost handler of send_message)
OuterExceptHandler(exc) == Returned([success |-> FALSE, error |-> exc])

\* The deadline counted from the call of run_interpreter.
SessionStart_AtCall(s) == call_time[s]

\* start_time = time.time(), read once the four frames are out.
SessionStart(s) == now

\* await websocket.send(json.dumps(msg)) for the next of the four frames;
\* after the last one the receive loop's locals are initialised.
SendFrame(s) ==
    /\ pc[s] = "send"
    /\ Len(sent[s]) < Len(RequestFrames(message[s]))
    /\ sent' = [sent EXCEPT ![s] =
                   Append(@, JsonDumps(RequestFrames(message[s])[Len(@) + 1]))]
    /\ IF Len(sent'[s]) = Len(RequestFrames(message[s]))
       THEN /\ pc' = [pc EXCEPT ![s] = "loop"]
            /\ locals_bound' = [locals_bound EXCEPT ![s] = TRUE]
            /\ responses' = [responses EXCEPT ![s] = << >>]
            /\ current_response' = [current_response EXCEPT ![s] = ""]
            /\ connection_active' = [connection_active EXCEPT ![s] = TRUE]
            /\ message_complete' = [message_complete EXCEPT ![s] = FALSE]
            /\ start_time' = [start_time EXCEPT ![s] = SessionStart(s)]
            /\ last_activity_time' = [last_activity_time EXCEPT ![s] = now]
            /\ UNCHANGED current_time
       ELSE UNCHANGED <<pc, loopvars>>
    /\ UNCHANGED <<config, lifecycle, far_end, now, message, conn, outcome, history>>

\* The ConnectionClosed of a send logged and swallowed: on to the loop.
SendClosed_Swallowed(s) ==
    /\ pc[s] = "send"
    /\ exit_reason' = [exit_reason EXCEPT ![s] = "send_closed"]
    /\ pc' = [pc EXCEPT ![s] = "loop"]
    /\ locals_bound' = [locals_bound EXCEPT ![s] = TRUE]
    /\ connection_active' = [connection_active EXCEPT ![s] = TRUE]
    /\ channel_exc' = [channel_exc EXCEPT ![s] = "ConnectionClosed"]
    /\ UNCHANGED <<config, lifecycle, far_end, now, message, sent, conn, responses, current_response,
                   message_complete, start_time, last_activity_time, current_time,
                   pending, result, probes, delivered,
                   instance_confirmed, call_time, at_call>>

\* websocket.send raises ConnectionClosed: the inner handler returns.
SendClosed(s) ==
    /\ pc[s] = "send"
    /\ pending' = [pending EXCEPT ![s] = Returned(ClosedWhileSending)]
    /\ exit_reason' = [exit_reason EXCEPT ![s] = "send_closed"]
    /\ pc' = [pc EXCEPT ![s] = "finally"]
    /\ channel_exc' = [channel_exc EXCEPT ![s] = "ConnectionClosed"]
    /\ UNCHANGED <<config, lifecycle, far_end, now, message, sent, conn, loopvars, result, probes, delivered,
                   instance_confirmed, call_time, at_call>>

\* websocket.send raises anything else: only the outermost handler catches it.
SendError(s) ==
    /\ pc[s] = "send"
    /\ pending' = [pending EXCEPT ![s] = OuterExceptHandler("OSError")]
    /\ exit_reason' = [exit_reason EXCEPT ![s] = "send_error"]
    /\ pc' = [pc EXCEPT ![s] = "finally"]
    /\ channel_exc' = [channel_exc EXCEPT ![s] = "OSError"]
    /\ UNCHANGED <<config, lifecycle, far_end, now, message, sent, conn, loopvars, result, probes, delivered,
                   instance_confirmed, call_time, at_call>>

(* ------------------------------------------- send_message: after the loop *)
\* The text one entry of responses adds to full_response.
FragmentText(resp) ==
    IF "content" \in DOMAIN resp THEN resp.content
    ELSE IF "text" \in DOMAIN resp THEN resp.text
    ELSE ""

\* for resp in responses: full_response += ...
RECURSIVE FullResponse(_)
FullResponse(resps) ==
    IF resps = << >> THEN ""
    ELSE FullResponse(SubSeq(resps, 1, Len(resps) - 1)) \o FragmentText(resps[Len(resps)])

\* `"content" in resp` raises TypeError when resp is a number.
AggregationRaises(resps) == \E i \in 1..Len(resps) : ~IsDict(resps[i])

\* The code that follows the loop: aggregate and return the success record.
AfterLoop(resps) ==
    IF AggregationRaises(resps)
    THEN OuterExceptHandler("TypeError")
    ELSE Returned([success |-> TRUE, stdout |-> FullResponse(resps), complete |-> TRUE,
                   responses |-> resps])

\* Leave the loop by break, with the loop's locals as they are afterwards.
Break(s, reason, resps) ==
    /\ pending' = [pending EXCEPT ![s] = AfterLoop(resps)]
    /\ exit_reason' = [exit_reason EXCEPT ![s] = reason]
    /\ pc' = [pc EXCEPT ![s] = "finally"]
    /\ UNCHANGED result

(* ------------------------------------------------ send_message: the loop *)
\* The timeout check left out.
TimedOut_Never(cur, start, tmo) == FALSE

\* The deadline taken to include the instant elapsed equals timeout.
TimedOut_AtLeast(cur, start, tmo) == cur - start >= tmo

\* if current_time - start_time > self.timeout
TimedOut(cur, start, tmo) == cur - start > tmo

\* The heartbeat sent as soon as the idle time reaches the interval.
HeartbeatDue_AtLeast(cur, last) == cur - last >= HeartbeatInterval

\* if current_time - last_activity_time > 10
HeartbeatDue(cur, last) == cur - last > HeartbeatInterval

\* The head of an iteration, down to the next await.
LoopHead(s) ==
    /\ pc[s] = "loop"
    /\ connection_active[s]
    /\ current_time' = [current_time EXCEPT ![s] = now]
    /\ IF TimedOut(now, start_time[s], timeout)
       THEN Break(s, "timeout", responses[s])
       ELSE /\ pc' = [pc EXCEPT ![s] =
                         IF HeartbeatDue(now, last_activity_time[s]) THEN "ping" ELSE "recv"]
            /\ UNCHANGED outcome
    /\ UNCHANGED <<config, lifecycle, far_end, now, message, sent, conn, locals_bound, responses,
                   current_response, connection_active, message_complete, start_time,
                   last_activity_time, history>>

\* await websocket.ping() returns.
PingOk(s) ==
    /\ pc[s] = "ping"
    /\ last_activity_time' = [last_activity_time EXCEPT ![s] = current_time[s]]
    /\ probes' = [probes EXCEPT ![s] = Append(@, current_time[s])]
    /\ pc' = [pc EXCEPT ![s] = "recv"]
    /\ UNCHANGED <<config, lifecycle, far_end, now, message, sent, conn, locals_bound, responses,
                   current_response, connection_active, message_complete, start_time,
                   current_time, outcome, delivered, instance_confirmed, call_time,
                   channel_exc, at_call>>

\* What websocket.ping() raises: ConnectionClosed when the channel has
\* closed, or any other error.
PingErrors == {"ConnectionClosed", "OSError"}

\* await websocket.ping() raises; except Exception catches either.
PingFail(s, exc) ==
    /\ pc[s] = "ping"
    /\ Break(s, "heartbeat_failed", responses[s])
    /\ channel_exc' = [channel_exc EXCEPT ![s] = exc]
    /\ UNCHANGED <<config, lifecycle, far_end, now, message, sent, conn, loopvars, probes, delivered,
                   instance_confirmed, call_time, at_call>>

\* The malformed payload logged and dropped.
DegradeMalformed_Drop(resps, raw) == resps

\* except json.JSONDecodeError: responses.append({"text": response})
DegradeMalformed(resps, raw) == Append(resps, [text |-> raw])

\* A frame with end = true taken for the completion marker as well.
IsComplete_OrEnd(data) ==
    \/ Get(data, "type") = "status" /\ Get(data, "content") = "complete"
    \/ "end" \in DOMAIN data

\* if type == "status" and content == "complete"
IsComplete(data) == Get(data, "type") = "status" /\ Get(data, "content") = "complete"

\* asyncio.wait_for(websocket.recv(), 5.0) returns payload p after d seconds.
RecvFrame(s, p, d) ==
    /\ pc[s] = "recv"
    /\ far_end[s] > 0
    /\ far_end' = [far_end EXCEPT ![s] = @ - 1]
    /\ now' = now + d
    /\ last_activity_time' = [last_activity_time EXCEPT ![s] = now']
    /\ delivered' = [delivered EXCEPT ![s] = Append(@, p)]
    /\ IF ~IsJson(p)
       THEN /\ responses' = [responses EXCEPT ![s] = DegradeMalformed(@, p.garbage)]
            /\ pc' = [pc EXCEPT ![s] = "loop"]
            /\ UNCHANGED <<current_response, connection_active, message_complete, outcome>>
       ELSE /\ responses' = [responses EXCEPT ![s] = Append(@, JsonLoads(p))]
            /\ IF ~IsDict(JsonLoads(p))
               THEN \* `"content" in 5` raises TypeError: except Exception
                    /\ connection_active' = [connection_active EXCEPT ![s] = FALSE]
                    /\ Break(s, "recv_error", responses'[s])
                    /\ UNCHANGED <<current_response, message_complete>>
               ELSE /\ current_response' = [current_response EXCEPT ![s] =
                           IF "content" \in DOMAIN JsonLoads(p)
                           THEN JsonLoads(p).content ELSE @]
                    /\ message_complete' = [message_complete EXCEPT ![s] =
                           @ \/ IsComplete(JsonLoads(p))]
                    /\ IF message_complete'[s]
                       THEN Break(s, "complete", responses'[s])
                       ELSE /\ pc' = [pc EXCEPT ![s] = "loop"]
                            /\ UNCHANGED outcome
                    /\ UNCHANGED connection_active
    /\ UNCHANGED <<config, lifecycle, message, sent, conn, locals_bound, start_time, current_time,
                   probes, instance_confirmed, call_time, channel_exc,
                   at_call>>

\* The later of two clock readings.
Later(a, b) == IF a >= b THEN a ELSE b

\* The wait expires (asyncio.TimeoutError) 5s after the iteration began it:
\* continue. While it lasted other sessions may have moved the clock on.
RecvExpire(s) ==
    /\ pc[s] = "recv"
    /\ now' = Later(now, current_time[s] + RecvTimeout)
    /\ pc' = [pc EXCEPT ![s] = "loop"]
    /\ UNCHANGED <<config, lifecycle, far_end, message, sent, conn, loopvars, outcome, history>>

\* recv raises ConnectionClosed: the handler returns from inside the loop.
RecvClosed(s) ==
    /\ pc[s] = "recv"
    /\ pending' = [pending EXCEPT ![s] = Returned(ConnectionClosedResult)]
    /\ exit_reason' = [exit_reason EXCEPT ![s] = "recv_closed"]
    /\ pc' = [pc EXCEPT ![s] = "finally"]
    /\ channel_exc' = [channel_exc EXCEPT ![s] = "ConnectionClosed"]
    /\ UNCHANGED <<config, lifecycle, far_end, now, message, sent, conn, loopvars, result, probes, delivered,
                   instance_confirmed, call_time, at_call>>

\* recv raises anything else: connection_active = False, break.
RecvError(s) ==
    /\ pc[s] = "recv"
    /\ connection_active' = [connection_active EXCEPT ![s] = FALSE]
    /\ Break(s, "recv_error", responses[s])
    /\ channel_exc' = [channel_exc EXCEPT ![s] = "OSError"]
    /\ UNCHANGED <<config, lifecycle, far_end, now, message, sent, conn, locals_bound, responses,
                   current_response, message_complete, start_time, last_activity_time,
                   current_time, probes, delivered,
                   instance_confirmed, call_time, at_call>>

(* ----------------------------------------------- send_message: finally *)
\* The channel closed whenever there is one.
ShouldClose_Always(s) == websocket[s] # "None"

\* if websocket: ... if message_complete or not connection_active; reading
\* the unassigned locals raises UnboundLocalError, which the finally block's
\* own handler swallows.
ShouldClose(s) ==
    /\ websocket[s] # "None"
    /\ locals_bound[s]
    /\ (message_complete[s] \/ ~connection_active[s])

\* run_interpreter: return response / except Exception: the error record.
RunInterpreterReturn(out) ==
    IF out.kind = "return" THEN out.value
    ELSE [success |-> FALSE, error |-> out.exc]

\* The finally block when it does not close: send_message and then
\* run_interpreter return.
FinallyKeep(s) ==
    /\ pc[s] = "finally"
    /\ ~ShouldClose(s)
    /\ result' = [result EXCEPT ![s] = RunInterpreterReturn(pending[s])]
    /\ pc' = [pc EXCEPT ![s] = "done"]
    /\ UNCHANGED <<config, lifecycle, far_end, now, message, sent, conn, loopvars, pending, exit_reason,
                   history>>

\* The finally block reaches await websocket.close().
FinallyClose(s) ==
    /\ pc[s] = "finally"
    /\ ShouldClose(s)
    /\ pc' = [pc EXCEPT ![s] = "close"]
    /\ UNCHANGED <<config, lifecycle, far_end, now, message, sent, conn, loopvars, outcome, history>>

\* The connection kept in a field of the client, shared by every session:
\* closing it closes it for all of them.
Close_Shared(s, ok) ==
    /\ pc[s] = "close"
    /\ websocket' = [t \in SessionIds |->
                        IF ok /\ websocket[t] # "None" THEN "closed" ELSE websocket[t]]
    /\ result' = [result EXCEPT ![s] = RunInterpreterReturn(pending[s])]
    /\ pc' = [pc EXCEPT ![s] = "done"]
    /\ UNCHANGED <<config, lifecycle, far_end, now, message, sent, attempt, attempt_waits, last_wait,
                   loopvars, pending, exit_reason, history>>

\* websocket.close() returns, or raises (logged): either way the functions return.
Close(s, ok) ==
    /\ pc[s] = "close"
    /\ websocket' = [websocket EXCEPT ![s] = IF ok THEN "closed" ELSE @]
    /\ result' = [result EXCEPT ![s] = RunInterpreterReturn(pending[s])]
    /\ pc' = [pc EXCEPT ![s] = "done"]
    /\ UNCHANGED <<config, lifecycle, far_end, now, message, sent, attempt, attempt_waits, last_wait,
                   loopvars, pending, exit_reason, history>>

(* ---------------------------------------------------------- specification *)
Step(s) ==
    \/ \E m \in Messages : RunInterpreter(s, m)
    \/ ConnectOk(s)
    \/ ConnectRetry(s)
    \/ ConnectGiveUp(s)
    \/ ConnectExhausted(s)
    \/ SendFrame(s)
    \/ SendClosed(s)
    \/ SendError(s)
    \/ LoopHead(s)
    \/ PingOk(s)
    \/ \E exc \in PingErrors : PingFail(s, exc)
    \/ \E p \in InboundPayloads, d \in FrameDelays : RecvFrame(s, p, d)
    \/ RecvExpire(s)
    \/ RecvClosed(s)
    \/ RecvError(s)
    \/ FinallyKeep(s)
    \/ FinallyClose(s)
    \/ \E ok \in BOOLEAN : Close(s, ok)

\* One session: a single run_interpreter call at a time, as main() makes them.
Next == Step(1)

Spec == Init /\ [][Next]_vars

\* Two send_message coroutines on one event loop: between two awaits one
\* coroutine runs alone, and at an await either may be the next to resume.
\* Both use one client configuration; the far end answers each connection
\* with that connection's own stream.
ConcurrentFrames == 2

\* A retry delay whose first backoff outlasts one bounded wait of the loop.
ConcurrentRetryDelay == 6

StreamOf(s) ==
    IF s = 1 THEN { JsonDumps(ContentFrame("a")), JsonDumps(CompleteFrame) }
    ELSE { JsonDumps(ContentFrame("b")), JsonDumps(CompleteFrame) }

ConcurrentInit ==
    /\ max_retries \in {0, 2}
    /\ retry_delay = ConcurrentRetryDelay
    /\ timeout = ShortTimeout
    /\ far_end = [s \in SessionIds |-> ConcurrentFrames]
    /\ running = {}
    /\ NoSession
    /\ NoCallers
    /\ NewSandbox(<< >>, << >>)

\* The event loop resumes waiting coroutines in the order their waits
\* expire: when the expiry of s's wait moves the clock, it moves it past no
\* other session's pending expiry. A time.sleep is no such wait: it holds
\* the thread, and with it the event loop, until it returns.
TimersInOrder(s) ==
    (pc[s] = "recv" /\ now' # now) =>
        \A t \in SessionIds \ {s} :
            pc[t] = "recv" => now' <= current_time[t] + RecvTimeout

ConcurrentNext ==
    \E s \in SessionIds :
        /\ Step(s)
        /\ delivered'[s] # delivered[s] => delivered'[s][Len(delivered'[s])] \in StreamOf(s)
        /\ TimersInOrder(s)

ConcurrentSpec == ConcurrentInit /\ [][ConcurrentNext]_vars

\* A DockerSandbox of any capability profile, with or without a container
\* left by an earlier process, before any call of run_interpreter.
LifecycleInit ==
    /\ max_retries = 1
    /\ retry_delay = 0
    /\ timeout = DefaultTimeout
    /\ far_end = [s \in SessionIds |-> FewFrames]
    /\ running \in {{}, {EarlierContainer}}
    /\ NoSession
    /\ NoCallers
    /\ \E drop_arg \in CapLists, add_arg \in CapLists : NewSandbox(drop_arg, add_arg)

\* The lifecycle operations in any order, each run to its end.
LifecycleNext ==
    \/ \E ok \in BOOLEAN : BuildImage(ok) /\ UNCHANGED provisioning
    \/ \E ok \in BOOLEAN : CheckContainerExists(ok) /\ UNCHANGED provisioning
    \/ \E ok \in BOOLEAN : StartContainer(ok) /\ UNCHANGED provisioning
    \/ \E ok \in BOOLEAN : StopContainer(ok) /\ UNCHANGED provisioning
    \/ \E c \in running : ContainerExits(c) /\ UNCHANGED provisioning

LifecycleSpec == LifecycleInit /\ [][LifecycleNext]_vars

\* Two callers about to run discover-then-start on one DockerSandbox, all
\* of them taking the provisioning lock or none of them.
ProvisionInit ==
    /\ max_retries = 1
    /\ retry_delay = 0
    /\ timeout = DefaultTimeout
    /\ far_end = [s \in SessionIds |-> FewFrames]
    /\ running \in {{}, {EarlierContainer}}
    /\ NoSession
    /\ caller_pc = [c \in Callers |-> "discover"]
    /\ lock = 0
    /\ serialized \in BOOLEAN
    /\ \E drop_arg \in CapLists, add_arg \in CapLists : NewSandbox(drop_arg, add_arg)

\* A caller's discover(): check_container_exists, taking the lock first when
\* the callers are serialized and keeping it for the start that follows.
Discover(c, ok) ==
    /\ caller_pc[c] = "discover"
    /\ serialized => lock = 0
    /\ CheckContainerExists(ok)
    /\ caller_pc' = [caller_pc EXCEPT ![c] =
                         IF op_log'[Len(op_log')].ret THEN "done" ELSE "start"]
    /\ lock' = IF serialized /\ ~op_log'[Len(op_log')].ret THEN c ELSE 0
    /\ UNCHANGED serialized

\* A caller's start() after its discover() found none; the lock is released.
Provision(c, ok) ==
    /\ caller_pc[c] = "start"
    /\ StartContainer(ok)
    /\ caller_pc' = [caller_pc EXCEPT ![c] = "done"]
    /\ lock' = 0
    /\ UNCHANGED serialized

ProvisionNext ==
    \/ \E c \in Callers, ok \in BOOLEAN : Discover(c, ok)
    \/ \E c \in Callers, ok \in BOOLEAN : Provision(c, ok)
    \/ \E c \in running : ContainerExits(c) /\ UNCHANGED provisioning

ProvisionSpec == ProvisionInit /\ [][ProvisionNext]_vars

(* ----------------------------------------------------------------- claims *)
Finished(s) == pc[s] = "done"
IsResultRecord(r) == "success" \in DOMAIN r /\ r.success \in BOOLEAN
Last(q) == q[Len(q)]

\* C1: send_message and run_interpreter return a record with a boolean
\* success field on every path; no exception leaves either of them.
C1_StructuredResult ==
    \A s \in SessionIds :
        /\ pc[s] \in {"finally", "close", "done"} =>
               /\ pending[s].kind = "return"
               /\ IsResultRecord(pending[s].value)
        /\ Finished(s) => IsResultRecord(result[s])

\* C1: an exception of the send phase reached the outermost handler and came
\* back as a failure record.
C1_Witness ==
    \E s \in SessionIds :
        Finished(s) /\ exit_reason[s] = "send_error" /\ ~result[s].success

\* C2: a session that sent its request and then received no frame until the
\* timeout returns success = false with a timeout error.
C2_SilentTimeoutReported ==
    \A s \in SessionIds :
        (Finished(s) /\ exit_reason[s] = "timeout" /\ delivered[s] = << >>) =>
            (~result[s].success /\ Get(result[s], "error") = "timeout")

\* The content fragments of the message frames among the payloads, in order.
RECURSIVE Fragments(_)
Fragments(ps) ==
    IF ps = << >> THEN ""
    ELSE Fragments(SubSeq(ps, 1, Len(ps) - 1)) \o
         (IF IsJson(Last(ps)) /\ IsDict(JsonLoads(Last(ps)))
             /\ Get(JsonLoads(Last(ps)), "type") = "message"
             /\ "content" \in DOMAIN JsonLoads(Last(ps))
          THEN JsonLoads(Last(ps)).content ELSE "")

StreamPayloads ==
    { JsonDumps(StartFrame), JsonDumps(ContentFrame("a")), JsonDumps(ContentFrame("b")) }

\* Start and content frames, then the completion status frame.
IsCompletedStream(ps) ==
    /\ ps # << >>
    /\ Last(ps) = JsonDumps(CompleteFrame)
    /\ \A i \in 1..(Len(ps) - 1) : ps[i] \in StreamPayloads

\* C3: content fragments followed by a completion status frame end the
\* session Complete, and the returned text is the concatenation of the
\* fragments in arrival order: the completion marker adds no text (start,
\* "a", "b", complete gives "ab").
C3_AggregateIsFragments ==
    \A s \in SessionIds :
        (Finished(s) /\ IsCompletedStream(delivered[s])) =>
            /\ exit_reason[s] = "complete"
            /\ result[s].success
            /\ result[s].stdout = Fragments(delivered[s])

\* C4: when every attempt fails, connect makes exactly max_retries attempts
\* and returns no connection, send_message reports success = false; no
\* attempt beyond max_retries is ever made.
C4_ExactlyMaxRetriesAttempts ==
    \A s \in SessionIds :
        /\ Len(attempt_waits[s]) <= max_retries
        /\ attempt[s] <= max_retries
        /\ exit_reason[s] = "connect_failed" =>
               /\ Len(attempt_waits[s]) = max_retries
               /\ websocket[s] = "None"
               /\ pc[s] \in {"finally", "done"}
               /\ pending[s] = Returned(ConnectionFailed)
               /\ Finished(s) => result[s].success = FALSE

\* C4: all of the largest number of attempts failed.
C4_Witness ==
    \E s \in SessionIds :
        /\ Finished(s) /\ exit_reason[s] = "connect_failed"
        /\ max_retries = MaxRetriesBound
        /\ Len(attempt_waits[s]) = MaxRetriesBound

\* C5: no wait precedes attempt 1, the wait before attempt k >= 2 is
\* retry_delay * (k - 1), and successive waits never decrease.
C5_LinearBackoff ==
    \A s \in SessionIds :
        \A k \in 1..Len(attempt_waits[s]) :
            /\ k = 1 => attempt_waits[s][k] = NoWait
            /\ k >= 2 => attempt_waits[s][k] = retry_delay * (k - 1)
            /\ k >= 3 => attempt_waits[s][k] >= attempt_waits[s][k - 1]

\* C5: a third attempt was made after two waits of non-zero length.
C5_Witness ==
    \E s \in SessionIds :
        Len(attempt_waits[s]) >= 3 /\ retry_delay > 0 /\ now = 3 * retry_delay

\* C6: a session whose heartbeat probe failed to send returns success = false.
C6_HeartbeatFailureFails ==
    \A s \in SessionIds :
        (Finished(s) /\ exit_reason[s] = "heartbeat_failed") => ~result[s].success

\* The probes of a session are more than the heartbeat interval apart, and
\* the activity clock is never behind the last probe.
ProbesSpaced(s) ==
    /\ \A i \in 1..(Len(probes[s]) - 1) :
           probes[s][i + 1] - probes[s][i] > HeartbeatInterval
    /\ probes[s] # << >> => last_activity_time[s] >= Last(probes[s])

\* C7 as claimed: an iteration that finds the idle time at 10s or more sends
\* a probe before it waits, the probe resets the activity clock, and no two
\* probes fall into one 10s window.
C7_ProbeOnceIdleReachesInterval ==
    \A s \in SessionIds :
        /\ pc[s] = "recv" => current_time[s] - last_activity_time[s] < HeartbeatInterval
        /\ ProbesSpaced(s)

\* C7 as amended: an iteration sends a probe exactly when it finds the idle
\* time strictly above 10s (at 10s exactly it starts another wait), the
\* probe resets the activity clock, and two probes are more than 10s apart.
C7_ProbeOnceIdleExceedsInterval ==
    \A s \in SessionIds :
        /\ pc[s] = "recv" => current_time[s] - last_activity_time[s] <= HeartbeatInterval
        /\ pc[s] = "ping" =>
               /\ current_time[s] - last_activity_time[s] > HeartbeatInterval
               /\ current_time[s] - start_time[s] <= timeout
        /\ ProbesSpaced(s)

\* C7: a silent session has sent its second probe.
C7_Witness ==
    \E s \in SessionIds :
        Len(probes[s]) = 2 /\ delivered[s] = << >> /\ pc[s] = "recv"

\* What the payloads contribute to the aggregate: the content of a frame
\* that has one, the raw text of a payload that is no JSON.
RECURSIVE ExpectedText(_)
ExpectedText(ps) ==
    IF ps = << >> THEN ""
    ELSE ExpectedText(SubSeq(ps, 1, Len(ps) - 1)) \o
         (IF ~IsJson(Last(ps)) THEN Last(ps).garbage
          ELSE IF IsDict(JsonLoads(Last(ps))) /\ "content" \in DOMAIN JsonLoads(Last(ps))
               THEN JsonLoads(Last(ps)).content ELSE "")

\* The payloads that came before the completion marker, if one came.
BeforeCompletion(ps) ==
    IF ps # << >> /\ Last(ps) = JsonDumps(CompleteFrame)
    THEN SubSeq(ps, 1, Len(ps) - 1) ELSE ps

\* The text of a successful result is the text of the payloads in arrival
\* order, whatever the completion marker itself may add to its end.
MalformedKeepsAggregate ==
    \A s \in SessionIds :
        (Finished(s) /\ result[s].success) =>
            \/ result[s].stdout = ExpectedText(BeforeCompletion(delivered[s]))
            \/ /\ exit_reason[s] = "complete"
               /\ result[s].stdout =
                      ExpectedText(BeforeCompletion(delivered[s])) \o CompleteFrame.content

MalformedKeepsReading ==
    \A s \in SessionIds :
        (Len(delivered'[s]) = Len(delivered[s]) + 1 /\ ~IsJson(Last(delivered'[s]))) =>
            /\ pc'[s] = "loop"
            /\ connection_active'[s]
            /\ exit_reason'[s] = "none"
            /\ Len(responses'[s]) = Len(delivered'[s])

\* C8: a payload that is no JSON does not end the session: the loop goes on
\* to its next iteration, and the payload's raw text stands in the aggregate
\* at the position it arrived in.
C8_MalformedDegradesToText == []MalformedKeepsAggregate /\ [][MalformedKeepsReading]_vars

\* C8: a session that read a malformed payload between two content frames
\* has completed.
C8_Witness ==
    \E s \in SessionIds :
        /\ Finished(s) /\ result[s].success /\ exit_reason[s] = "complete"
        /\ delivered[s] = << JsonDumps(ContentFrame("a")), Garbage("x"),
                             JsonDumps(ContentFrame("b")), JsonDumps(CompleteFrame) >>
        /\ ExpectedText(BeforeCompletion(delivered[s])) = "axb"

HasContent(ps) == \E i \in 1..Len(ps) : ps[i] \in {JsonDumps(ContentFrame("a")),
                                                     JsonDumps(ContentFrame("b"))}

\* C9: a session whose deadline passes after content arrived and before any
\* completion marker reports a timeout; no success = true result carries the
\* partial text.
C9_PartialContentNotSuccess ==
    \A s \in SessionIds :
        (Finished(s) /\ exit_reason[s] = "timeout" /\ HasContent(delivered[s])) =>
            ~result[s].success

\* C10: no connection attempt is made in a run_interpreter call unless
\* discover or start has confirmed a running instance in that call.
C10_InstanceEnsuredBeforeConnect ==
    \A s \in SessionIds :
        Len(attempt_waits[s]) > 0 => instance_confirmed[s]

\* The four frames of a request for a text, as they must appear on the wire.
ExpectedOnWire(text) ==
    << JsonDumps([auth |-> TRUE]),
       JsonDumps([role |-> "user", type |-> "message", start |-> TRUE]),
       JsonDumps([role |-> "user", type |-> "message", content |-> text]),
       JsonDumps([role |-> "user", type |-> "message", end |-> TRUE]) >>

\* C14: a request goes out as exactly four frames in the order auth,
\* message-start, one content frame with the whole request text,
\* message-end, and nothing is received before all four are out.
C14_FourFramesBeforeReceive ==
    \A s \in SessionIds :
        /\ Len(sent[s]) <= 4
        /\ \A i \in 1..Len(sent[s]) : sent[s][i] = ExpectedOnWire(message[s])[i]
        /\ (pc[s] \in {"loop", "ping", "recv"} \/ locals_bound[s] \/ delivered[s] # << >>)
               => sent[s] = ExpectedOnWire(message[s])

\* C14: a session waits for its first frame with the four frames sent.
C14_Witness ==
    \E s \in SessionIds :
        pc[s] = "recv" /\ delivered[s] = << >> /\ Len(sent[s]) = 4 /\ message[s] = "hi"

C16_SendClosedFails ==
    \A s \in SessionIds :
        exit_reason[s] = "send_closed" =>
            /\ pc[s] \in {"finally", "done"}
            /\ pending[s] = Returned([success |-> FALSE, error |-> "closed while sending"])
            /\ Len(sent[s]) < 4
            /\ ~locals_bound[s]
            /\ delivered[s] = << >>
            /\ Finished(s) => result[s] = [success |-> FALSE, error |-> "closed while sending"]

\* C16: the channel closed with two of the four frames sent.
C16_Witness ==
    \E s \in SessionIds :
        Finished(s) /\ exit_reason[s] = "send_closed" /\ Len(sent[s]) = 2

LoopNeverOverruns ==
    \A s \in SessionIds :
        locals_bound[s] =>
            /\ current_time[s] - start_time[s] <= timeout + RecvTimeout
            /\ pc[s] \in {"ping", "recv"} => current_time[s] - start_time[s] <= timeout
            /\ pc[s] \in {"loop", "ping", "recv"} => now - start_time[s] <= timeout + RecvTimeout

ExpiryReentersLoop ==
    \A s \in SessionIds :
        (pc[s] = "recv" /\ delivered'[s] = delivered[s] /\ now' # now) =>
            /\ now' = now + RecvTimeout
            /\ pc'[s] = "loop"
            /\ exit_reason'[s] = "none"
            /\ pending'[s] = pending[s]

C20_CloseOnlyAfterLoop ==
    \A s \in SessionIds :
        (pc[s] = "close" \/ websocket[s] = "closed") =>
            /\ exit_reason[s] # "none"
            /\ pc[s] \in {"close", "done"}
            /\ locals_bound[s]
            /\ message_complete[s] \/ ~connection_active[s]

\* C20: the channel of a completed session was closed.
C20_Witness ==
    \E s \in SessionIds :
        websocket[s] = "closed" /\ exit_reason[s] = "complete" /\ Finished(s)

\* C17 as claimed: a session whose channel closed while it was awaiting or
\* streaming ends with the connection-closed failure.
C17_ClosedInLoopFails ==
    \A s \in SessionIds :
        (Finished(s) /\ locals_bound[s] /\ channel_exc[s] = "ConnectionClosed") =>
            result[s] = ConnectionClosedResult

RECURSIVE SumWaits(_)
\* The seconds slept over a run of connection attempts.
SumWaits(waits) ==
    IF waits = << >> THEN 0
    ELSE (IF waits[1] = NoWait THEN 0 ELSE waits[1]) + SumWaits(Tail(waits))

\* C18 as claimed: a session is never found connecting once the time since
\* the call has reached the timeout.
C18_DeadlineWhileConnecting ==
    \A s \in SessionIds : pc[s] = "connect" => now - call_time[s] < timeout

\* C18 as amended: the deadline is counted from the moment the four frames
\* are out and only the receive loop checks it; time spent connecting and
\* backing off is not counted, and no session times out while connecting.
C18_DeadlineFromLoopStart ==
    \A s \in SessionIds :
        /\ exit_reason[s] = "timeout" =>
               /\ locals_bound[s] /\ Len(sent[s]) = 4
               /\ current_time[s] - start_time[s] > timeout
        /\ locals_bound[s] =>
               start_time[s] = call_time[s] + SumWaits(attempt_waits[s])
        /\ pc[s] \in {"connect", "send"} => exit_reason[s] = "none"

\* C18: a session is still connecting with the timeout already spent in
\* backoff waits.
C18_Witness ==
    \E s \in SessionIds :
        pc[s] = "connect" /\ now - call_time[s] >= timeout /\ attempt[s] < max_retries

\* A step by which stop_container returns with no id tracked before it.
StopUntracked ==
    /\ Len(op_log') = Len(op_log) + 1
    /\ Last(op_log').op = "stop_container"
    /\ container_id = "None"

\* C12: stop_container with no tracked id returns True without running any
\* docker command and leaves the tracked id unset and the runtime as it
\* was, whatever operations came before.
C12_StopUntrackedIsNoop ==
    [][StopUntracked =>
          /\ Last(op_log') = Called("stop_container", TRUE, << >>)
          /\ SubSeq(op_log', 1, Len(op_log)) = op_log
          /\ container_id' = "None"
          /\ running' = running]_vars

\* C12: a stop ran no docker command right after a stop that succeeded in
\* stopping the tracked container.
C12_Witness ==
    /\ Len(op_log) >= 2
    /\ container_id = "None"
    /\ Last(op_log) = Called("stop_container", TRUE, << >>)
    /\ op_log[Len(op_log) - 1].op = "stop_container"
    /\ op_log[Len(op_log) - 1].ret
    /\ op_log[Len(op_log) - 1].docker # << >>

\* The capability names, and what an entry of a capability list stands for.
Capabilities == {"CHOWN", "NET_ADMIN", "SYS_ADMIN"}
Expand(cap) == IF cap = "ALL" THEN Capabilities ELSE {cap}

RECURSIVE EffectiveDrop(_, _)
\* The capabilities left dropped by a command line whose capability options
\* are applied in the order in which they are written.
EffectiveDrop(command, dropped) ==
    IF Len(command) < 2 THEN dropped
    ELSE IF command[1] = "--cap-drop"
         THEN EffectiveDrop(SubSeq(command, 3, Len(command)),
                            dropped \cup Expand(command[2]))
    ELSE IF command[1] = "--cap-add"
         THEN EffectiveDrop(SubSeq(command, 3, Len(command)),
                            dropped \ Expand(command[2]))
    ELSE EffectiveDrop(Tail(command), dropped)

\* The positions of a flag on a command line.
Positions(command, flag) == { i \in 1..Len(command) : command[i] = flag }

\* C13: in every launch command start_container builds, all --cap-drop
\* options come before all --cap-add options, the options name exactly the
\* entries of the two lists, and no capability of the add list is left in
\* the effective drop set.
C13_AddWinsOverDrop ==
    \A i \in Launches(op_log) :
        LET command == op_log[i].docker IN
        /\ \A d \in Positions(command, "--cap-drop"), a \in Positions(command, "--cap-add") :
               d < a
        /\ Cardinality(Positions(command, "--cap-drop")) = Len(cap_drop)
        /\ Cardinality(Positions(command, "--cap-add")) = Len(cap_add)
        /\ \A k \in 1..Len(cap_add) :
               /\ \E a \in Positions(command, "--cap-add") : command[a + 1] = cap_add[k]
               /\ Expand(cap_add[k]) \cap EffectiveDrop(command, {}) = {}
        /\ \A k \in 1..Len(cap_drop) :
               \E d \in Positions(command, "--cap-drop") : command[d + 1] = cap_drop[k]

\* C13: a launch with a capability on both lists: it is not dropped, the
\* other one is.
C13_Witness ==
    \E i \in Launches(op_log) :
        /\ cap_drop = << "NET_ADMIN", "CHOWN" >>
        /\ cap_add = << "CHOWN" >>
        /\ EffectiveDrop(op_log[i].docker, {}) = {"NET_ADMIN"}

\* The lifecycle operations made since the call of a session began.
RequestOps(s) == SubSeq(op_log, at_call[s].log + 1, Len(op_log))

StopTracked ==
    /\ Len(op_log') = Len(op_log) + 1
    /\ Last(op_log').op = "stop_container"
    /\ container_id \notin {"None", ""}

\* What stop_container does to a tracked id.
StopTrackedEffect ==
    /\ Last(op_log').docker = << "docker", "stop", container_id >>
    /\ Len(docker_runs') = Len(docker_runs) + 1
    /\ Last(docker_runs') = Ran(<< "docker", "stop", container_id >>, Last(op_log').ret)
    /\ Last(op_log').ret => container_id' = "None"
    /\ ~Last(op_log').ret => container_id' = container_id

\* A stop_container that follows a failed one runs the same docker stop.
RetryTargetsSame ==
    \A i \in 1..(Len(op_log) - 1) :
        (op_log[i].op = "stop_container" /\ ~op_log[i].ret
            /\ op_log[i + 1].op = "stop_container") =>
            op_log[i + 1].docker = op_log[i].docker

\* C21: stop_container on a tracked id runs docker stop on it once; it
\* returns True and unsets the id when that succeeds, returns False and
\* keeps the id when it fails, so that the next stop_container stops the
\* same id.
C21_StopClearsOnlyOnSuccess == []RetryTargetsSame /\ [][StopTracked => StopTrackedEffect]_vars

\* C21: a stop failed and the stop after it stopped the same container.
C21_Witness ==
    /\ Len(op_log) >= 2
    /\ container_id = "None"
    /\ op_log[Len(op_log) - 1].op = "stop_container"
    /\ ~op_log[Len(op_log) - 1].ret
    /\ Last(op_log).op = "stop_container"
    /\ Last(op_log).ret
    /\ Last(op_log).docker = op_log[Len(op_log) - 1].docker
    /\ Last(op_log).docker # << >>

\* A step by which check_container_exists returns.
CheckStep ==
    /\ Len(op_log') = Len(op_log) + 1
    /\ Last(op_log').op = "check_container_exists"

\* C22 as claimed: whenever docker ps works and a container of the image is
\* running, check_container_exists returns True and records a running one,
\* whatever id was recorded before.
C22_DiscoverFindsAnyMatch ==
    [][(CheckStep /\ Last(docker_runs').ok /\ running # {}) =>
          (Last(op_log').ret /\ container_id' \in running)]_vars

\* The one query check_container_exists makes: by the recorded id when
\* there is one, by the image otherwise.
QueriedById == container_id \notin {"None", ""}
QueryMatches == IF QueriedById THEN {c \in running : c = container_id} ELSE running

\* C22 as amended: check_container_exists makes one query, for the recorded
\* id alone when an id is recorded and for the image only when none is; it
\* returns True and records a match when that query works and lists one,
\* and returns False leaving the id as it was otherwise.
C22_DiscoverQueriesOneKind ==
    [][CheckStep =>
          /\ Len(docker_runs') = Len(docker_runs) + 1
          /\ Last(docker_runs').command[5] =
                 (IF QueriedById THEN "id=" \o container_id ELSE "ancestor=" \o ImageName)
          /\ Last(op_log').ret <=> (Last(docker_runs').ok /\ QueryMatches # {})
          /\ Last(op_log').ret => container_id' \in QueryMatches
          /\ ~Last(op_log').ret => container_id' = container_id]_vars

\* C22: a working query returned False with a container of the image
\* running, the recorded one having stopped.
C22_Witness ==
    /\ op_log # << >>
    /\ Last(op_log).op = "check_container_exists"
    /\ ~Last(op_log).ret
    /\ Last(docker_runs).ok
    /\ running = {EarlierContainer}
    /\ container_id \notin {"None", "", EarlierContainer}

\* A step by which an operation of the given kind returns what it returns.
Returns(op, ret) ==
    /\ Len(op_log') = Len(op_log) + 1
    /\ Last(op_log').op = op
    /\ Last(op_log').ret = ret

\* A successful start_container leaves the new container running and
\* tracked, after the settle interval.
StartTracksNew ==
    Returns("start_container", TRUE) =>
        /\ container_id' \notin running
        /\ container_id' \in running'
        /\ container_id' \notin {"None", ""}
        /\ running' = running \cup {container_id'}
        /\ now' = now + SettleSeconds

\* C23 as claimed: a successful start_container tracks the running new
\* container, and a tracked id is given up only by a stop_container that
\* succeeds.
C23_TrackedUntilStopped ==
    [][/\ StartTracksNew
       /\ (container_id \notin {"None", ""} /\ container_id' # container_id) =>
              Returns("stop_container", TRUE)]_vars

\* C23 as amended: a successful start_container tracks the running new
\* container, and a tracked id is given up only by a stop_container that
\* succeeds or by a later start_container that succeeds, which replaces it.
C23_TrackedUntilStoppedOrReplaced ==
    [][/\ StartTracksNew
       /\ (container_id \notin {"None", ""} /\ container_id' # container_id) =>
              \/ Returns("stop_container", TRUE) /\ container_id' = "None"
              \/ Returns("start_container", TRUE)]_vars

\* C23: a second launch has replaced the tracked id of the first, which
\* still runs.
C23_Witness ==
    /\ Len(op_log) = 2
    /\ \A i \in 1..2 : op_log[i].op = "start_container" /\ op_log[i].ret
    /\ container_id = "c2"
    /\ {"c1", "c2"} \subseteq running

\* A step by which build_image or start_container returns.
BuildOrStartStep ==
    /\ Len(op_log') = Len(op_log) + 1
    /\ Last(op_log').op \in {"build_image", "start_container"}

\* C24: build_image and start_container each run their docker command
\* exactly once and return whether it exited with status 0; a failed one
\* changes neither the tracked id nor the runtime.
C24_FailuresReportedNotRetried ==
    [][BuildOrStartStep =>
          /\ Len(docker_runs') = Len(docker_runs) + 1
          /\ SubSeq(docker_runs', 1, Len(docker_runs)) = docker_runs
          /\ Last(docker_runs').command = Last(op_log').docker
          /\ Last(op_log').ret = Last(docker_runs').ok
          /\ ~Last(op_log').ret => (container_id' = container_id /\ running' = running)]_vars

\* C24: a failed build and a failed start, each reported after one docker
\* command.
C24_Witness ==
    /\ Len(op_log) = 2 /\ Len(docker_runs) = 2
    /\ op_log[1] = Called("build_image", FALSE, BuildCommand)
    /\ op_log[2] = Called("start_container", FALSE, LaunchCommand)
    /\ ~docker_runs[1].ok /\ ~docker_runs[2].ok

\* The containers start_container has launched that still run.
LaunchedRunning == running \ {EarlierContainer}

\* The place in op_log of the start_container that launched a container.
LaunchIndex(c) ==
    CHOOSE i \in Launches(op_log) :
        c = "c" \o ToString(Cardinality({j \in Launches(op_log) : j <= i}))

\* C30 as claimed: every container launched by start_container that still
\* runs is the tracked one.
C30_NeverLosesTrack == \A c \in LaunchedRunning : c = container_id

\* C30 as amended: only the last id written is tracked. A launched
\* container that still runs is either the tracked one or was launched
\* before a later successful start_container, which replaced its id.
C30_LastWriterWins ==
    \A c \in LaunchedRunning :
        c # container_id =>
            \E j \in Launches(op_log) : op_log[j].ret /\ j > LaunchIndex(c)

\* C30: of two launched containers stop_container has stopped the second;
\* the first still runs and no id is tracked.
C30_Witness ==
    /\ op_log # << >>
    /\ Last(op_log) = Called("stop_container", TRUE, << "docker", "stop", "c2" >>)
    /\ "c1" \in running
    /\ container_id = "None"

\* The launches that succeeded, and the container each one started.
SuccessfulLaunches == { i \in Launches(op_log) : op_log[i].ret }
ContainerOf(i) == "c" \o ToString(Cardinality({k \in Launches(op_log) : k <= i}))

\* Some docker ps could not be run or failed.
PsFailed ==
    \E i \in 1..Len(docker_runs) :
        docker_runs[i].command[2] = "ps" /\ ~docker_runs[i].ok

\* C25 as claimed (its second half): callers that hold one lock over their
\* discover-then-start never launch more than one container.
C25_LockGivesAtMostOne == serialized => Cardinality(SuccessfulLaunches) <= 1

\* C25 as amended: under the lock every start_container directly follows a
\* check_container_exists that returned False, and a second container is
\* launched only if a docker ps failed or the first container had stopped
\* running by itself.
C25_LockedSecondLaunchNeedsBlindDiscover ==
    serialized =>
        /\ \A i \in Launches(op_log) :
               /\ i > 1
               /\ op_log[i - 1].op = "check_container_exists"
               /\ ~op_log[i - 1].ret
        /\ \A i, j \in SuccessfulLaunches :
               i < j => (PsFailed \/ ContainerOf(i) \notin running)

\* C25: without the lock both callers discovered none, with every docker ps
\* working, and both launched: two containers run.
C25_Witness ==
    /\ ~serialized
    /\ Len(op_log) = 4
    /\ \A i \in {1, 2} : op_log[i].op = "check_container_exists" /\ ~op_log[i].ret
    /\ \A i \in {3, 4} : op_log[i].op = "start_container" /\ op_log[i].ret
    /\ ~PsFailed
    /\ running = {"c1", "c2"}
    /\ \A c \in Callers : caller_pc[c] = "done"

(* ------------------------------------------------------ claims C26 .. C29 *)
NonFramePayloads == {p \in InboundPayloads : IsJson(p) /\ ~IsDict(JsonLoads(p))}

ReceivedNonFrame(s) == \E i \in 1..Len(delivered[s]) : delivered[s][i] \in NonFramePayloads

\* C26 as claimed: a payload that is valid JSON but no frame object (a bare
\* number) neither stops the session's reading nor turns its result into an
\* error: with no failure of the channel itself, a session that received one
\* does not leave the loop through an error and does not return a failure.
C26_NonFramePayloadTolerated ==
    \A s \in SessionIds :
        (ReceivedNonFrame(s) /\ channel_exc[s] = "none") =>
            /\ exit_reason[s] # "recv_error"
            /\ Finished(s) => result[s].success

LoopDecided(s) == locals_bound[s] /\ pc[s] \in {"ping", "recv", "finally", "close", "done"}

\* C27 as claimed: an iteration that goes on to wait (heartbeat or receive)
\* observed an elapsed time below timeout; at elapsed = timeout it stops.
C27_StopsAtDeadline ==
    \A s \in SessionIds :
        (locals_bound[s] /\ pc[s] \in {"ping", "recv"}) =>
            current_time[s] - start_time[s] < timeout

\* C27 as amended: the loop stops with a timeout exactly when an iteration
\* observes now - start_time > timeout; an iteration that goes on to wait
\* observed at most timeout, equality included.
C27_StopsPastDeadline ==
    \A s \in SessionIds :
        LoopDecided(s) =>
            /\ pc[s] \in {"ping", "recv"} => current_time[s] - start_time[s] <= timeout
            /\ exit_reason[s] = "timeout" <=>
                   (pc[s] \notin {"ping", "recv"} /\ current_time[s] - start_time[s] > timeout)

\* C27: an iteration observed elapsed = timeout exactly and started another
\* bounded wait.
C27_Witness ==
    \E s \in SessionIds :
        /\ pc[s] = "recv"
        /\ locals_bound[s]
        /\ current_time[s] - start_time[s] = timeout

\* C29 as claimed: when send_message has returned and it had opened a
\* connection, the connection is closed.
C29_ClosedOnEveryExit ==
    \A s \in SessionIds :
        (Finished(s) /\ websocket[s] # "None") => websocket[s] = "closed"

(* -------------------------------------------------------------- claim C28 *)
\* What the loop stores for one inbound payload.
Decoded(p) == IF IsJson(p) THEN JsonLoads(p) ELSE [text |-> p.garbage]

DecodedAll(q) == [i \in 1..Len(q) |-> Decoded(q[i])]

OwnFramesOnly ==
    \A s \in SessionIds :
        /\ locals_bound[s] => responses[s] = DecodedAll(delivered[s])
        /\ (Finished(s) /\ result[s].success) =>
               /\ result[s].responses = DecodedAll(delivered[s])
               /\ result[s].stdout = FullResponse(DecodedAll(delivered[s]))

Touched(s) ==
    \/ websocket'[s] # websocket[s]
    \/ responses'[s] # responses[s]
    \/ current_response'[s] # current_response[s]
    \/ result'[s] # result[s]

OneSessionPerStep ==
    \A s, t \in SessionIds : (s # t /\ Touched(s)) => ~Touched(t)

\* C28: under every interleaving of two sessions, the frame list, the
\* aggregate and the result of a session are made of the frames delivered on
\* that session's own channel and of nothing else, and a step that closes or
\* opens one session's channel, or changes its frame list or result, leaves
\* the other session's channel, frame list and result as they were.
C28_SessionsIndependent == []OwnFramesOnly /\ [][OneSessionPerStep]_vars

\* C28: session 1 completed with its own frame and closed its channel while
\* session 2, holding a different frame, is still waiting on its open channel.
C28_Witness ==
    /\ Finished(1) /\ result[1].success /\ websocket[1] = "closed"
    /\ delivered[1] = << JsonDumps(ContentFrame("a")), JsonDumps(CompleteFrame) >>
    /\ pc[2] = "recv" /\ websocket[2] = "open"
    /\ delivered[2] = << JsonDumps(ContentFrame("b")) >>

(* -------------------------------------------------------------- claim C32 *)
FailedStartOrMiss ==
    \/ Returns("start_container", FALSE)
    \/ Returns("check_container_exists", FALSE)

SuccessfulWriter ==
    \/ Returns("start_container", TRUE)
    \/ Returns("check_container_exists", TRUE)
    \/ Returns("stop_container", TRUE)

\* C32: a start_container that fails and a check_container_exists that
\* returns False (no match, or docker ps failing) leave container_id as it
\* was, and every step that changes container_id is a start_container, a
\* check_container_exists or a stop_container that returned True.
C32_TrackedIdFrame ==
    [][/\ FailedStartOrMiss => container_id' = container_id
       /\ container_id' # container_id => SuccessfulWriter]_vars

\* C32: with c1 tracked, a start_container failed and a
\* check_container_exists found nothing, and c1 is still the tracked id.
C32_Witness ==
    /\ container_id = "c1"
    /\ \E i, j \in 1..Len(op_log) :
           /\ op_log[i].op = "start_container" /\ ~op_log[i].ret
           /\ op_log[j].op = "check_container_exists" /\ ~op_log[j].ret
           /\ \E k \in 1..Len(op_log) :
                  k < i /\ k < j /\ op_log[k].op = "start_container" /\ op_log[k].ret

(* -------------------------------------------------------------- claim C31 *)
\* How long session t has been in its bounded wait.
Waited(t) == now - current_time[t]

\* C31 as claimed: a session's loop is never held up by another session's
\* connect backoff: a session in its bounded wait for a frame began that
\* wait at most 5s ago, so that its reception and its next timeout and
\* heartbeat checks come when they are due.
C31_BackoffSuspendsNoOne ==
    \A t \in SessionIds :
        (pc[t] = "recv" /\ locals_bound[t]) => Waited(t) <= RecvTimeout

====
